---------------------------- MODULE Spec2Model ----------------------------
(***************************************************************************)
(* Verification model of iotex-election: the result calculator            *)
(* (types.ResultCalculator) and the synchronisation engine                 *)
(* (committee.committee).                                                  *)
(*                                                                         *)
(* Three specifications share the module:                                  *)
(*   SpecCalc  one calculator driven by arbitrary call sequences           *)
(*   SpecDet   two calculators fed the same inputs in different orders     *)
(*   Spec      the committee: Start, catch-up, subscription, Sync, Stop,   *)
(*             queries, process crash and restart over a persistent store *)
(***************************************************************************)
EXTENDS Integers, Sequences, FiniteSets, TLC

(***************************************************************************)
(* Bounds of the model                                                     *)
(***************************************************************************)
\* calls made on one calculator in SpecCalc
MaxCalls == 3
\* largest value the 64-bit hash prefix takes in the model (0..MaxPriority)
MaxPriority == 1
\* longest list handed to one AddRegistrations call
MaxRegList == 2
\* longest list handed to one AddBuckets call
MaxBucketList == 1
\* SpecDet: most registrations, and most buckets, given to the two calculators
MaxDetRegs == 3
MaxDetBuckets == 2

\* the chain heads the environment passes through, in order
MaxHeadIndex == 4
\* process restarts over the same KV store
MaxRestarts == 1
\* faults the environment injects: failed fetches, block times that
\* contradict the ledger, failed KV writes
MaxFaults == 2
\* fetches followed of a fetchInBatch loop whose bound has wrapped
MaxSpawned == 2
\* SpecFetch: greatest cfg.NumOfFetchInParallel, greatest cfg.NumOfRetries
MaxParallel == 2
MaxRetryLimit == 2

(***************************************************************************)
(* Configuration of the committee                                          *)
(***************************************************************************)
\* cfg.GravityChainHeightInterval
Interval == 10
\* cfg.GravityChainBatchSize
BatchSize == 2
\* cfg.CacheSize
CacheSize == 2
\* cfg.GravityChainStartHeight
StartHeights == {0, 3}
\* the reorg-safety margin of fetchInBatch
Margin == 12

(***************************************************************************)
(* Configuration of the calculator, as the committee injects it            *)
(***************************************************************************)
VoteThreshold == 5
\* the (selfStakingThreshold, scoreThreshold) pairs a calculator is built with
Thresholds == { <<0, 0>>, <<10, 0>>, <<0, 10>> }
MintTime == 1000000

(***************************************************************************)
(* Byte strings                                                            *)
(***************************************************************************)
NilBytes == <<>>

HexDigit(d) == IF d < 10 THEN 48 + d ELSE 87 + d

\* hex.EncodeToString: two lowercase hex characters (as code points) per byte
hex(name) ==
    [i \in 1..(2 * Len(name)) |->
        IF i % 2 = 1 THEN HexDigit(name[(i + 1) \div 2] \div 16)
                     ELSE HexDigit(name[i \div 2] % 16)]

\* candidateZero two characters short
candidateZeroShort == [i \in 1..22 |-> 48]

candidateZero == [i \in 1..24 |-> 48]

RECURSIVE StringsCompare(_, _)
\* strings.Compare: -1, 0, 1 by byte-wise lexicographic order
StringsCompare(a, b) ==
    IF a = <<>> /\ b = <<>> THEN 0
    ELSE IF a = <<>> THEN -1
    ELSE IF b = <<>> THEN 1
    ELSE IF Head(a) < Head(b) THEN -1
    ELSE IF Head(a) > Head(b) THEN 1
    ELSE StringsCompare(Tail(a), Tail(b))

(***************************************************************************)
(* Inputs of the calculator                                                *)
(***************************************************************************)
NameAA == <<170>>
NameBB == <<187>>
NameCC == <<204>>
NameZero == [i \in 1..12 |-> 0]

Reg(n, a, w) == [name |-> n, address |-> a, selfStakingWeight |-> w]

Registrations ==
    { Reg(NameAA, 1, 1), Reg(NameAA, 1, 3), Reg(NameBB, 2, 1),
      Reg(NameBB, 2, 2), Reg(NameZero, 3, 1) }

Bkt(v, c, a, st) == [voter |-> v, candidate |-> c, amount |-> a, startTime |-> st]

Buckets ==
    { Bkt(1, NameAA, 10, 0),            \* self vote of aa
      Bkt(9, NameAA, 10, 0),
      Bkt(9, NameBB, 10, 0),
      Bkt(2, NameBB, 10, 0),            \* self vote of bb
      Bkt(1, NameAA, 10, MintTime + 1), \* not started yet: score 0
      Bkt(9, NameZero, 10, 0),          \* reserved name
      Bkt(9, NilBytes, 10, 0),          \* no candidate
      Bkt(9, NameAA, 1, 0),             \* below the vote threshold
      Bkt(9, NameCC, 10, 0) }           \* unregistered candidate

\* the registrations and the buckets SpecDet draws from
DetRegistrations ==
    { Reg(NameAA, 1, 1), Reg(NameAA, 1, 3), Reg(NameBB, 2, 1), Reg(NameCC, 3, 1) }

DetBuckets ==
    { Bkt(1, NameAA, 10, 0), Bkt(9, NameAA, 10, 0), Bkt(2, NameBB, 10, 0) }

HexNames == { hex(r.name) : r \in Registrations \cup DetRegistrations }

SeqsUpTo(S, n) == UNION { [1..k -> S] : k \in 0..n }

\* the sequences that list every element of S once
Enumerations(S) ==
    { o \in [1..Cardinality(S) -> S] :
        \A i, j \in 1..Cardinality(S) : o[i] = o[j] => i = j }

SubsetsUpTo(S, n) == { T \in SUBSET S : Cardinality(T) <= n }

CalcIds == {1, 2}

VARIABLES
    calculator,      \* [CalcIds -> the fields of a ResultCalculator]
    result,          \* [CalcIds -> the ElectionResult Calculate returned, or NoResult]
    ret,             \* [CalcIds -> the last call and the error it returned]
    calls,           \* [CalcIds -> number of calls made]
    skipManified,    \* construction parameter
    selfStakingThreshold, \* thresholds of the injected candidateFilter
    scoreThreshold,
    blake2b,         \* [hex name -> first 8 bytes of BLAKE2b-256(name || ts), as uint64]
    inputRegs,       \* SpecDet: the registrations both calculators are given
    inputBuckets,    \* SpecDet: the buckets both calculators are given
    detPc,           \* SpecDet: [CalcIds -> where the calculator's pipeline stands]
    detOrder,        \* SpecDet: the orders calculator 1 was fed in
    detDiffers,      \* SpecDet: which of its orders calculator 2 was fed differently
    callLog          \* SpecAcct: the calls made on calculator 1, with their lists

calcVars == <<calculator, result, ret, calls, skipManified, selfStakingThreshold,
              scoreThreshold, blake2b, inputRegs, inputBuckets, detPc, detOrder,
              detDiffers, callLog>>

calcConfig == <<skipManified, selfStakingThreshold, scoreThreshold, blake2b,
                inputRegs, inputBuckets>>

NoResult == [returned |-> FALSE]
NoCall == [op |-> "none", err |-> "nil"]
NoOrder == [regs |-> <<>>, map |-> <<>>]
NoDiffers == [regs |-> FALSE, map |-> FALSE]

(***************************************************************************)
(* types.ResultCalculator                                                  *)
(***************************************************************************)
NewResultCalculator ==
    [candidates |-> <<>>, candidateVotes |-> <<>>,
     totalVotedStakes |-> 0, totalVotes |-> 0, calculated |-> FALSE]

NewCandidate(r, score, tokens) ==
    [name |-> r.name, address |-> r.address,
     selfStakingWeight |-> r.selfStakingWeight,
     score |-> score, selfStakingTokens |-> tokens]

\* committee.voteFilter
bucketFilter(bucket) == VoteThreshold > bucket.amount

\* committee.calcWeightedVotes, for buckets whose remaining time is 0 (weight 1)
calcScore(bucket, mintTime) ==
    IF mintTime < bucket.startTime THEN 0 ELSE bucket.amount

\* committee.candidateFilter
candidateFilter(c) ==
    selfStakingThreshold > c.selfStakingTokens \/ scoreThreshold > c.score

RECURSIVE AddRegistrationsLoop(_, _)
\* the for loop of AddRegistrations: c with the registrations of list added,
\* up to the first duplicate
AddRegistrationsLoop(c, list) ==
    IF list = <<>> THEN [calc |-> c, err |-> "nil"]
    ELSE LET r == Head(list)
             name == hex(r.name)
         IN IF name \in DOMAIN c.candidates
            THEN [calc |-> c, err |-> "duplicate"]
            ELSE IF r.selfStakingWeight > 1 /\ skipManified
            THEN AddRegistrationsLoop(c, Tail(list))
            ELSE AddRegistrationsLoop(
                    [c EXCEPT !.candidates = (name :> NewCandidate(r, 0, 0)) @@ @,
                              !.candidateVotes = (name :> <<>>) @@ @],
                    Tail(list))

AddRegistrationsGuard(c) ==
    IF c.calculated THEN "calculated"
    ELSE IF c.totalVotes > 0 THEN "votes"
    ELSE "nil"

AddRegistrationsOp(c, list) ==
    IF AddRegistrationsGuard(c) # "nil"
    THEN [calc |-> c, err |-> AddRegistrationsGuard(c)]
    ELSE AddRegistrationsLoop(c, list)

\* AddBucket with the self-staked amount left unscaled
AddBucketAmountUnscaled(c, bucket) ==
    IF bucketFilter(bucket) THEN c
    ELSE IF bucket.candidate = NilBytes THEN c
    ELSE IF StringsCompare(hex(bucket.candidate), candidateZero) = 0 THEN c
    ELSE
      LET nameHex == hex(bucket.candidate)
          exists == nameHex \in DOMAIN c.candidates
          self == exists /\ bucket.voter = c.candidates[nameHex].address
          w == IF self THEN c.candidates[nameHex].selfStakingWeight ELSE 1
          amount == bucket.amount
          score == calcScore(bucket, MintTime) * w
          c1 == IF self
                THEN [c EXCEPT !.candidates[nameHex].selfStakingTokens = @ + amount]
                ELSE c
          c2 == IF exists
                THEN [c1 EXCEPT !.candidates[nameHex].score = @ + score,
                                !.candidateVotes[nameHex] =
                                    Append(@, [bucket |-> bucket, score |-> score])]
                ELSE c1
      IN [c2 EXCEPT !.totalVotedStakes = @ + amount, !.totalVotes = @ + score]

\* one iteration of the for loop of AddBuckets
AddBucket(c, bucket) ==
    IF bucketFilter(bucket) THEN c
    ELSE IF bucket.candidate = NilBytes THEN c
    ELSE IF StringsCompare(hex(bucket.candidate), candidateZero) = 0 THEN c
    ELSE
      LET nameHex == hex(bucket.candidate)
          amount0 == bucket.amount
          score0 == calcScore(bucket, MintTime)
          exists == nameHex \in DOMAIN c.candidates
          self == exists /\ bucket.voter = c.candidates[nameHex].address
          w == IF self THEN c.candidates[nameHex].selfStakingWeight ELSE 1
          amount == amount0 * w
          score == score0 * w
          c1 == IF self
                THEN [c EXCEPT !.candidates[nameHex].selfStakingTokens = @ + amount]
                ELSE c
          c2 == IF exists
                THEN [c1 EXCEPT !.candidates[nameHex].score = @ + score,
                                !.candidateVotes[nameHex] =
                                    Append(@, [bucket |-> bucket, score |-> score])]
                ELSE c1
      IN [c2 EXCEPT !.totalVotedStakes = @ + amount, !.totalVotes = @ + score]

RECURSIVE AddBucketsLoop(_, _)
AddBucketsLoop(c, list) ==
    IF list = <<>> THEN c ELSE AddBucketsLoop(AddBucket(c, Head(list)), Tail(list))

\* AddBuckets without its check of calculated
AddBucketsGuardMissing(c) == "nil"

AddBucketsGuard(c) == IF c.calculated THEN "calculated" ELSE "nil"

AddBucketsOp(c, list) ==
    IF AddBucketsGuard(c) # "nil"
    THEN [calc |-> c, err |-> AddBucketsGuard(c)]
    ELSE [calc |-> AddBucketsLoop(c, list), err |-> "nil"]

\* Less with the name compared ascending on equal priorities
LessNameAscending(pi, pj) ==
    IF pi.Value < pj.Value THEN FALSE
    ELSE IF pi.Value > pj.Value THEN TRUE
    ELSE IF pi.Priority < pj.Priority THEN FALSE
    ELSE IF pi.Priority > pj.Priority THEN TRUE
    ELSE StringsCompare(pi.Key, pj.Key) < 0

\* itemList.Less
Less(pi, pj) ==
    IF pi.Value < pj.Value THEN FALSE
    ELSE IF pi.Value > pj.Value THEN TRUE
    ELSE IF pi.Priority < pj.Priority THEN FALSE
    ELSE IF pi.Priority > pj.Priority THEN TRUE
    ELSE StringsCompare(pi.Key, pj.Key) > 0

RECURSIVE InsertStable(_, _)
\* x placed after every element it is not Less than: a stable insertion
InsertStable(sorted, x) ==
    IF sorted = <<>> THEN <<x>>
    ELSE IF Less(x, sorted[Len(sorted)])
         THEN Append(InsertStable(SubSeq(sorted, 1, Len(sorted) - 1), x),
                     sorted[Len(sorted)])
         ELSE Append(sorted, x)

RECURSIVE SortStable(_)
\* sort.Stable under Less
SortStable(p) ==
    IF p = <<>> THEN <<>>
    ELSE InsertStable(SortStable(SubSeq(p, 1, Len(p) - 1)), p[Len(p)])

Priority(name) == blake2b[name]

RECURSIVE CollectItems(_, _)
\* the range loop of filterAndSortCandidates, visiting the map in the given order
CollectItems(c, order) ==
    IF order = <<>> THEN <<>>
    ELSE LET name == Head(order)
             rest == CollectItems(c, Tail(order))
         IN IF ~candidateFilter(c.candidates[name])
            THEN <<[Key |-> name, Value |-> c.candidates[name].score,
                    Priority |-> Priority(name)]>> \o rest
            ELSE rest

filterAndSortCandidates(c, order) ==
    LET p == SortStable(CollectItems(c, order))
    IN [i \in 1..Len(p) |-> p[i].Key]

\* the iteration orders a Go map range may take
MapOrders(c) == Enumerations(DOMAIN c.candidates)

CalculateGuard(c) == IF c.calculated THEN "calculated" ELSE "nil"

\* Calculate: the ElectionResult shares the candidate objects and the two
\* totals with the calculator (pointers); the vote lists are slice copies.
CalculateOp(c, order) ==
    IF CalculateGuard(c) # "nil"
    THEN [calc |-> c, err |-> CalculateGuard(c), result |-> NoResult]
    ELSE LET qualifiers == filterAndSortCandidates(c, order)
         IN [calc |-> [c EXCEPT !.calculated = TRUE],
             err |-> "nil",
             result |-> [returned |-> TRUE,
                         mintTime |-> MintTime,
                         delegates |-> qualifiers,
                         votes |-> [n \in {qualifiers[i] : i \in 1..Len(qualifiers)}
                                        |-> c.candidateVotes[n]]]]

\* what a holder of the returned ElectionResult reads through it
ResultView(c, r) ==
    IF ~r.returned THEN NoResult
    ELSE [returned |-> TRUE,
          mintTime |-> r.mintTime,
          delegates |-> [i \in 1..Len(r.delegates) |-> c.candidates[r.delegates[i]]],
          votes |-> r.votes,
          totalVotedStakes |-> c.totalVotedStakes,
          totalVotes |-> c.totalVotes]

(***************************************************************************)
(* util: fixed-width little-endian heights                                 *)
(***************************************************************************)
RECURSIVE LittleEndian(_, _)
LittleEndian(u, n) ==
    IF n = 0 THEN <<>> ELSE <<u % 256>> \o LittleEndian(u \div 256, n - 1)

Uint64ToBytes(u) == LittleEndian(u, 8)

RECURSIVE BytesToUint64(_)
BytesToUint64(b) ==
    IF b = <<>> THEN 0 ELSE Head(b) + 256 * BytesToUint64(Tail(b))

(***************************************************************************)
(* The gravity chain, as the carrier reports it                            *)
(***************************************************************************)
\* block time of height h, in Unix seconds: one block per second
TimeOf(h) == 900 + h

\* a block time that is not after the time of the epoch before
SkewedTimeOf(h) == TimeOf(h) - Interval - 5

Heads == [i \in 0..MaxHeadIndex |-> 5 + 11 * i]

\* Unix seconds of the zero time.Time, which BlockTimestamp returns with an
\* error (-62135596800 in the program; any value below every block time here)
ZeroTimeUnix == 0 - 1

TipInfo(h) == [Height |-> h, BlockTime |-> TimeOf(h)]

\* carrier.Tip(): the chain has grown to any head from the last one seen on
Tips(last) == last..MaxHeadIndex

(***************************************************************************)
(* ElectionResult, as far as the committee reads it                        *)
(***************************************************************************)
NilResult == [nil |-> TRUE]
ElectionResult(t) == [nil |-> FALSE, mintTime |-> t]

Serialize(r) == <<1>> \o Uint64ToBytes(r.mintTime)
Deserialize(data) == ElectionResult(BytesToUint64(Tail(data)))

(***************************************************************************)
(* db.KVStore                                                              *)
(***************************************************************************)
NextHeightKey == <<110, 101, 120, 116, 72, 101, 105, 103, 104, 116>>

dbKey(height) == Uint64ToBytes(height)

dbHas(store, key) == key \in DOMAIN store

dbPut(store, key, value) == (key :> value) @@ store

(***************************************************************************)
(* resultCache: LRU, most recently used first                              *)
(***************************************************************************)
RECURSIVE CacheWithout(_, _)
CacheWithout(c, height) ==
    IF c = <<>> THEN <<>>
    ELSE IF Head(c).height = height THEN CacheWithout(Tail(c), height)
    ELSE <<Head(c)>> \o CacheWithout(Tail(c), height)

cacheInsert(c, height, r) ==
    LET all == <<[height |-> height, result |-> r]>> \o CacheWithout(c, height)
    IN SubSeq(all, 1, IF Len(all) < CacheSize THEN Len(all) ELSE CacheSize)

cacheHas(c, height) == \E i \in 1..Len(c) : c[i].height = height

cacheGet(c, height) ==
    IF cacheHas(c, height)
    THEN (CHOOSE e \in {c[i] : i \in 1..Len(c)} : e.height = height).result
    ELSE NilResult

\* the cache after get(height): a hit moves the entry to the front
cachePromote(c, height) ==
    IF cacheHas(c, height) THEN cacheInsert(c, height, cacheGet(c, height)) ELSE c

CacheHeights(c) == { c[i].height : i \in 1..Len(c) }

(***************************************************************************)
(* heightManager                                                           *)
(***************************************************************************)
newHeightManager == [heights |-> <<>>, times |-> <<>>]

hmValidate(m, height, ts) ==
    LET l == Len(m.heights)
    IN IF l = 0 THEN TRUE ELSE m.heights[l] < height /\ m.times[l] < ts

hmAdd(m, height, ts) ==
    IF hmValidate(m, height, ts)
    THEN [heights |-> Append(m.heights, height), times |-> Append(m.times, ts)]
    ELSE m

\* the greatest committed height whose mintTime is <= ts, or 0
nearestHeightBefore(m, ts) ==
    LET idx == { i \in 1..Len(m.heights) : m.times[i] <= ts }
    IN IF idx = {} THEN 0
       ELSE m.heights[CHOOSE i \in idx : \A j \in idx : j <= i]

HmHeights(m) == { m.heights[i] : i \in 1..Len(m.heights) }

VARIABLES
    proc,            \* "new", "running", "startFailed", "stopped", "exited"
    startHeight,     \* cfg.GravityChainStartHeight
    db,              \* the KV store: [key -> value], kept across restarts
    cache,           \* ec.cache
    heightManager,   \* ec.heightManager
    nextHeight,      \* ec.nextHeight
    currentHeight,   \* ec.currentHeight
    lastUpdateTimestamp, \* ec.lastUpdateTimestamp
    mutex,           \* who holds ec.mutex exclusively: "free", "worker", "stop"
    worker,          \* the goroutine Start spawns
    stopPc,          \* the caller of Stop: "idle", "send", "close", "done"
    sub,             \* the goroutine of carrier.SubscribeNewBlock
    head,            \* index in Heads of the chain's head
    query,           \* the query that has just returned, and what it returned
    restarts,        \* restarts so far
    faults           \* faults injected so far

engineVars == <<proc, startHeight, db, cache, heightManager, nextHeight,
                currentHeight, lastUpdateTimestamp, mutex, worker, stopPc, sub,
                head, query, restarts, faults>>

VARIABLES
    fetchInParallel, \* ec.fetchInParallel
    retryLimit,      \* ec.retryLimit
    fetchMain,       \* SpecFetch: where fetchInBatch stands, and its loop variable
    limiter,         \* SpecFetch: number of values in the channel limiter
    wg,              \* SpecFetch: the counter of the WaitGroup
    fetcher,         \* SpecFetch: [height -> the goroutine spawned for it]
    results,         \* SpecFetch: the map results
    errs             \* SpecFetch: the map errs

fetchVars == <<fetchInParallel, retryLimit, fetchMain, limiter, wg, fetcher,
               results, errs>>

\* fetchInBatch is not running
IdleFetch ==
    /\ fetchInParallel = 1
    /\ retryLimit = 1
    /\ fetchMain = [pc |-> "idle", nextHeight |-> 0]
    /\ limiter = 0
    /\ wg = 0
    /\ fetcher = <<>>
    /\ results = <<>>
    /\ errs = <<>>

NoQuery == [op |-> "none"]
NoWorker == [pc |-> "off"]
NoSub == [pc |-> "off"]

\* the volatile state NewCommittee builds
NewCommittee ==
    /\ cache = <<>>
    /\ heightManager = newHeightManager
    /\ nextHeight = startHeight
    /\ currentHeight = 0
    /\ lastUpdateTimestamp = 0
    /\ mutex = "free"
    /\ worker = NoWorker
    /\ stopPc = "idle"
    /\ sub = NoSub
    /\ query = NoQuery
    /\ proc = "new"

InitEngine ==
    /\ startHeight \in StartHeights
    /\ db = <<>>
    /\ head = 0
    /\ restarts = 0
    /\ faults = 0
    /\ NewCommittee
    /\ IdleFetch

(***************************************************************************)
(* committee: fetchInBatch                                                 *)
(***************************************************************************)
gap == Interval * BatchSize

\* currentHeight raised to the tip
RaisedHeight(cur, tipHeight) == IF cur < tipHeight THEN tipHeight ELSE cur

\* currentHeight-12 in uint64 wraps below 12 to 2^64-12+currentHeight, above
\* every height of the model: the loop then spawns a fetch for every epoch
\* height up to there and fetchInBatch does not return
Wraps(cur) == cur < Margin

\* the first heights that loop spawns a fetch for; their entries of the
\* results map are not written yet
RunawayHeights(next) == { next + k * Interval : k \in 0..(MaxSpawned - 1) }

\* fetchInBatch stepping by one more than the interval
BatchHeightsWrongStep(next, cur) ==
    { h \in next..(cur - Margin) : (h - next) % (Interval + 1) = 0 }

\* the heights the loop of fetchInBatch visits when currentHeight >= 12
BatchHeights(next, cur) ==
    { h \in next..(cur - Margin) : (h - next) % Interval = 0 }

RECURSIVE SortedHeightsDescending(_)
\* the heights sorted the other way round
SortedHeightsDescending(S) ==
    IF S = {} THEN <<>>
    ELSE LET m == CHOOSE x \in S : \A y \in S : x >= y
         IN <<m>> \o SortedHeightsDescending(S \ {m})

RECURSIVE SortedHeights(_)
\* sort.Slice of storeInBatch: ascending
SortedHeights(S) ==
    IF S = {} THEN <<>>
    ELSE LET m == CHOOSE x \in S : \A y \in S : x <= y
         IN <<m>> \o SortedHeights(S \ {m})

\* what retryFetchResultByHeight returns for a height: a result with the
\* block's time, a result with a block time that contradicts the ledger, or
\* an error
FetchKinds == {"ok", "skewed", "error"}

FetchedResult(h, kind) ==
    IF kind = "ok" THEN ElectionResult(TimeOf(h))
    ELSE IF kind = "skewed" THEN ElectionResult(SkewedTimeOf(h))
    ELSE NilResult

FetchedError(kind) == IF kind = "error" THEN "error" ELSE "nil"

FaultsOf(kinds) == Cardinality({ h \in DOMAIN kinds : kinds[h] # "ok" })

TimeFault(t) == IF t = ZeroTimeUnix THEN 1 ELSE 0

IdleWorker(pc) ==
    [pc |-> pc, step |-> "none", h |-> 0, tip |-> TipInfo(0), results |-> <<>>,
     errs |-> <<>>, todo |-> <<>>, tipTime |-> 0, after |-> "none"]

\* fetchInBatch(tipHeight) by the worker, which goes on to storeInBatch with
\* one of tipTimes (after taking the lock, in Sync)
FetchInBatch(tipHeight, tipTimes, after) ==
    \E cur \in {RaisedHeight(currentHeight, tipHeight)} :
        /\ currentHeight' = cur
        /\ IF Wraps(cur)
           THEN /\ worker' = [worker EXCEPT
                        !.pc = "spawning",
                        !.results = [h \in RunawayHeights(nextHeight) |-> NilResult]]
                /\ UNCHANGED faults
           ELSE \E kinds \in [BatchHeights(nextHeight, cur) -> FetchKinds],
                   tipTime \in tipTimes :
                  /\ faults + FaultsOf(kinds) + TimeFault(tipTime) <= MaxFaults
                  /\ faults' = faults + FaultsOf(kinds) + TimeFault(tipTime)
                  /\ worker' = [worker EXCEPT
                        !.pc = IF after = "sync" THEN "lock" ELSE "store",
                        !.step = "height",
                        !.results = [h \in DOMAIN kinds |-> FetchedResult(h, kinds[h])],
                        !.errs = [h \in DOMAIN kinds |-> FetchedError(kinds[h])],
                        !.todo = SortedHeights(DOMAIN kinds),
                        !.tipTime = tipTime,
                        !.after = after]

(***************************************************************************)
(* committee: Start                                                        *)
(***************************************************************************)
RECURSIVE Restore(_, _, _)
\* the restore loop of Start from height on: the cache and the height
\* manager it leaves, and the error it returns
Restore(st, height, next) ==
    IF height >= next THEN st
    ELSE IF ~dbHas(db, dbKey(height)) THEN [st EXCEPT !.err = "notExist"]
    ELSE LET r == Deserialize(db[dbKey(height)])
             c == cacheInsert(st.cache, height, r)
         IN IF ~hmValidate(st.hm, height, r.mintTime)
            THEN [st EXCEPT !.cache = c, !.err = "invalid"]
            ELSE Restore([st EXCEPT !.cache = c,
                                    !.hm = hmAdd(st.hm, height, r.mintTime)],
                         height + Interval, next)

Alive == proc \in {"running", "stopped"}

Start ==
    /\ proc = "new"
    /\ \E next \in {IF dbHas(db, NextHeightKey)
                    THEN BytesToUint64(db[NextHeightKey]) ELSE nextHeight} :
       \E st \in {IF dbHas(db, NextHeightKey)
                  THEN Restore([cache |-> cache, hm |-> heightManager, err |-> "nil"],
                               startHeight, next)
                  ELSE [cache |-> cache, hm |-> heightManager, err |-> "nil"]} :
          /\ nextHeight' = next
          /\ cache' = st.cache
          /\ heightManager' = st.hm
          /\ IF st.err # "nil"
             THEN /\ proc' = "startFailed"
                  /\ UNCHANGED <<worker, head>>
             ELSE /\ proc' = "running"
                  /\ \E tip \in Tips(head) :
                        /\ head' = tip
                        /\ worker' = [IdleWorker("catchup") EXCEPT
                                        !.h = next + gap, !.tip = TipInfo(Heads[tip])]
    /\ query' = NoQuery
    /\ UNCHANGED <<startHeight, db, currentHeight, lastUpdateTimestamp, mutex,
                   stopPc, sub, restarts, faults, calcVars, fetchVars>>

(***************************************************************************)
(* The goroutine of Start: catch-up                                        *)
(***************************************************************************)
\* the time handed to storeInBatch in the catch-up loop: BlockTimestamp(h),
\* or the zero time when it failed
CatchUpTimes(h) == {TimeOf(h), ZeroTimeUnix}

\* one round of the catch-up loop: fetchInBatch(h)
CatchUpRound ==
    /\ Alive
    /\ worker.pc = "catchup"
    /\ worker.h < worker.tip.Height
    /\ FetchInBatch(worker.h, CatchUpTimes(worker.h), "catchup")
    /\ query' = NoQuery
    /\ UNCHANGED <<proc, startHeight, db, cache, heightManager, nextHeight,
                   lastUpdateTimestamp, mutex, stopPc, sub, head, restarts, calcVars, fetchVars>>

\* after the loop: fetchInBatch(tip.Height)
CatchUpTip ==
    /\ Alive
    /\ worker.pc = "catchup"
    /\ worker.h >= worker.tip.Height
    /\ FetchInBatch(worker.tip.Height, {worker.tip.BlockTime}, "subscribe")
    /\ query' = NoQuery
    /\ UNCHANGED <<proc, startHeight, db, cache, heightManager, nextHeight,
                   lastUpdateTimestamp, mutex, stopPc, sub, head, restarts, calcVars, fetchVars>>

(***************************************************************************)
(* committee: storeInBatch and storeResult, a step at a time               *)
(***************************************************************************)
\* storeInBatch returns to its caller: the next catch-up round, the
\* subscription, or the deferred unlock of Sync
StoreReturns ==
    /\ worker' = IF worker.after = "catchup"
                 THEN [IdleWorker("catchup") EXCEPT !.h = worker.h + gap,
                                                    !.tip = worker.tip]
                 ELSE IdleWorker("select")
    /\ mutex' = IF worker.after = "sync" THEN "free" ELSE mutex
    /\ sub' = IF worker.after = "subscribe" THEN [pc |-> "wait", tip |-> TipInfo(0)]
              ELSE sub

Storing(step) == Alive /\ worker.pc = "store" /\ worker.step = step

\* the outcomes of a db.Put: it fails on a stopped store, and by a fault
PutOutcomes ==
    (IF proc = "running" THEN {TRUE} ELSE {})
        \cup (IF proc # "running" \/ faults < MaxFaults THEN {FALSE} ELSE {})

\* whether storeResult stops at a Put that did not succeed
PutErrorIgnored(ok) == FALSE

PutFailed(ok) == ~ok

\* the batch is through: lastUpdateTimestamp is stored
StoreDone ==
    /\ Storing("height")
    /\ worker.todo = <<>>
    /\ lastUpdateTimestamp' = worker.tipTime
    /\ StoreReturns
    /\ query' = NoQuery
    /\ UNCHANGED <<proc, startHeight, db, cache, heightManager, nextHeight,
                   currentHeight, stopPc, head, restarts, faults, calcVars, fetchVars>>

\* the height's fetch failed: the batch is abandoned
StoreAborts ==
    /\ Storing("height")
    /\ worker.todo # <<>>
    /\ worker.errs[Head(worker.todo)] # "nil"
    /\ StoreReturns
    /\ query' = NoQuery
    /\ UNCHANGED <<proc, startHeight, db, cache, heightManager, nextHeight,
                   currentHeight, lastUpdateTimestamp, stopPc, head, restarts,
                   faults, calcVars, fetchVars>>

\* the rejection only logged: storeInBatch goes on to storeResult
StoreFatalLogsOnly ==
    /\ Storing("height")
    /\ worker.todo # <<>>
    /\ worker.errs[Head(worker.todo)] = "nil"
    /\ ~hmValidate(heightManager, Head(worker.todo),
                   worker.results[Head(worker.todo)].mintTime)
    /\ db' = dbPut(db, dbKey(Head(worker.todo)),
                   Serialize(worker.results[Head(worker.todo)]))
    /\ worker' = [worker EXCEPT !.step = "putNext"]
    /\ query' = NoQuery
    /\ UNCHANGED <<proc, startHeight, cache, heightManager, nextHeight, currentHeight,
                   lastUpdateTimestamp, mutex, stopPc, sub, head, restarts, faults,
                   calcVars, fetchVars>>

\* heightManager.validate rejects the result: zap's Fatal ends the process
StoreFatal ==
    /\ Storing("height")
    /\ worker.todo # <<>>
    /\ worker.errs[Head(worker.todo)] = "nil"
    /\ ~hmValidate(heightManager, Head(worker.todo),
                   worker.results[Head(worker.todo)].mintTime)
    /\ proc' = "exited"
    /\ query' = NoQuery
    /\ UNCHANGED <<startHeight, db, cache, heightManager, nextHeight, currentHeight,
                   lastUpdateTimestamp, mutex, worker, stopPc, sub, head, restarts,
                   faults, calcVars, fetchVars>>

\* storeResult: db.Put(dbKey(height), data)
\* storeResult going on to NextHeightKey without the result written
StorePutResultUnwritten ==
    /\ Storing("height")
    /\ worker.todo # <<>>
    /\ worker.errs[Head(worker.todo)] = "nil"
    /\ hmValidate(heightManager, Head(worker.todo),
                  worker.results[Head(worker.todo)].mintTime)
    /\ \E ok \in PutOutcomes :
         /\ faults' = IF ok \/ proc # "running" THEN faults ELSE faults + 1
         /\ db' = db
         /\ IF PutFailed(ok) THEN StoreReturns
            ELSE /\ worker' = [worker EXCEPT !.step = "putNext"]
                 /\ UNCHANGED <<mutex, sub>>
    /\ query' = NoQuery
    /\ UNCHANGED <<proc, startHeight, cache, heightManager, nextHeight, currentHeight,
                   lastUpdateTimestamp, stopPc, head, restarts, calcVars, fetchVars>>

StorePutResult ==
    /\ Storing("height")
    /\ worker.todo # <<>>
    /\ worker.errs[Head(worker.todo)] = "nil"
    /\ hmValidate(heightManager, Head(worker.todo),
                  worker.results[Head(worker.todo)].mintTime)
    /\ \E ok \in PutOutcomes :
         /\ faults' = IF ok \/ proc # "running" THEN faults ELSE faults + 1
         /\ db' = IF ok THEN dbPut(db, dbKey(Head(worker.todo)),
                                   Serialize(worker.results[Head(worker.todo)]))
                  ELSE db
         /\ IF PutFailed(ok) THEN StoreReturns
            ELSE /\ worker' = [worker EXCEPT !.step = "putNext"]
                 /\ UNCHANGED <<mutex, sub>>
    /\ query' = NoQuery
    /\ UNCHANGED <<proc, startHeight, cache, heightManager, nextHeight, currentHeight,
                   lastUpdateTimestamp, stopPc, head, restarts, calcVars, fetchVars>>

\* storeResult: db.Put(NextHeightKey, dbKey(height+interval))
StorePutNextHeight ==
    /\ Storing("putNext")
    /\ \E ok \in PutOutcomes :
         /\ faults' = IF ok \/ proc # "running" THEN faults ELSE faults + 1
         /\ db' = IF ok THEN dbPut(db, NextHeightKey, dbKey(Head(worker.todo) + Interval))
                  ELSE db
         /\ IF PutFailed(ok) THEN StoreReturns
            ELSE /\ worker' = [worker EXCEPT !.step = "cache"]
                 /\ UNCHANGED <<mutex, sub>>
    /\ query' = NoQuery
    /\ UNCHANGED <<proc, startHeight, cache, heightManager, nextHeight, currentHeight,
                   lastUpdateTimestamp, stopPc, head, restarts, calcVars, fetchVars>>

\* storeResult: ec.cache.insert(height, result)
StoreCacheInsert ==
    /\ Storing("cache")
    /\ cache' = cacheInsert(cache, Head(worker.todo), worker.results[Head(worker.todo)])
    /\ worker' = [worker EXCEPT !.step = "add"]
    /\ query' = NoQuery
    /\ UNCHANGED <<proc, startHeight, db, heightManager, nextHeight, currentHeight,
                   lastUpdateTimestamp, mutex, stopPc, sub, head, restarts, faults,
                   calcVars, fetchVars>>

\* storeResult: ec.heightManager.add(height, mintTime), and back in
\* storeInBatch: ec.nextHeight = height + ec.interval
StoreAdd ==
    /\ Storing("add")
    /\ heightManager' = hmAdd(heightManager, Head(worker.todo),
                              worker.results[Head(worker.todo)].mintTime)
    /\ nextHeight' = Head(worker.todo) + Interval
    /\ worker' = [worker EXCEPT !.step = "height", !.todo = Tail(@)]
    /\ query' = NoQuery
    /\ UNCHANGED <<proc, startHeight, db, cache, currentHeight, lastUpdateTimestamp,
                   mutex, stopPc, sub, head, restarts, faults, calcVars, fetchVars>>

(***************************************************************************)
(* The goroutine of Start: the select loop, and Sync                       *)
(***************************************************************************)
\* case tip := <-tipChan, the subscription sending
ReceiveTip ==
    /\ Alive
    /\ worker.pc = "select"
    /\ sub.pc = "sendTip"
    /\ worker' = [worker EXCEPT !.pc = "sync", !.tip = sub.tip]
    /\ sub' = [sub EXCEPT !.pc = "wait"]
    /\ query' = NoQuery
    /\ UNCHANGED <<proc, startHeight, db, cache, heightManager, nextHeight,
                   currentHeight, lastUpdateTimestamp, mutex, stopPc, head, restarts,
                   faults, calcVars, fetchVars>>

\* case err := <-reportChan
ReceiveReport ==
    /\ Alive
    /\ worker.pc = "select"
    /\ sub.pc = "sendErr"
    /\ sub' = [sub EXCEPT !.pc = "wait"]
    /\ query' = NoQuery
    /\ UNCHANGED <<proc, startHeight, db, cache, heightManager, nextHeight,
                   currentHeight, lastUpdateTimestamp, mutex, worker, stopPc, head,
                   restarts, faults, calcVars, fetchVars>>

\* Sync: fetchInBatch(tipHeight), before the lock
SyncFetch ==
    /\ Alive
    /\ worker.pc = "sync"
    /\ FetchInBatch(worker.tip.Height, {worker.tip.BlockTime}, "sync")
    /\ query' = NoQuery
    /\ UNCHANGED <<proc, startHeight, db, cache, heightManager, nextHeight,
                   lastUpdateTimestamp, mutex, stopPc, sub, head, restarts, calcVars, fetchVars>>

\* Sync: ec.mutex.Lock()
SyncLock ==
    /\ Alive
    /\ worker.pc = "lock"
    /\ mutex = "free"
    /\ mutex' = "worker"
    /\ worker' = [worker EXCEPT !.pc = "store"]
    /\ query' = NoQuery
    /\ UNCHANGED <<proc, startHeight, db, cache, heightManager, nextHeight,
                   currentHeight, lastUpdateTimestamp, stopPc, sub, head, restarts,
                   faults, calcVars, fetchVars>>

(***************************************************************************)
(* committee: Stop, and the terminate channel (unbuffered)                 *)
(***************************************************************************)
\* Stop: ec.mutex.Lock()
StopLock ==
    /\ proc = "running"
    /\ stopPc = "idle"
    /\ mutex = "free"
    /\ mutex' = "stop"
    /\ stopPc' = "send"
    /\ query' = NoQuery
    /\ UNCHANGED <<proc, startHeight, db, cache, heightManager, nextHeight,
                   currentHeight, lastUpdateTimestamp, worker, sub, head, restarts,
                   faults, calcVars, fetchVars>>

\* Stop's send is received by the select loop
TerminateStopToWorker ==
    /\ proc = "running"
    /\ stopPc = "send"
    /\ worker.pc = "select"
    /\ stopPc' = "close"
    /\ worker' = [worker EXCEPT !.pc = "ack"]
    /\ query' = NoQuery
    /\ UNCHANGED <<proc, startHeight, db, cache, heightManager, nextHeight,
                   currentHeight, lastUpdateTimestamp, mutex, sub, head, restarts,
                   faults, calcVars, fetchVars>>

\* Stop's send is received by the subscription
TerminateStopToSub ==
    /\ proc = "running"
    /\ stopPc = "send"
    /\ sub.pc = "wait"
    /\ stopPc' = "close"
    /\ sub' = [sub EXCEPT !.pc = "ack"]
    /\ query' = NoQuery
    /\ UNCHANGED <<proc, startHeight, db, cache, heightManager, nextHeight,
                   currentHeight, lastUpdateTimestamp, mutex, worker, head, restarts,
                   faults, calcVars, fetchVars>>

\* the select loop's send back is received by the subscription
TerminateWorkerToSub ==
    /\ Alive
    /\ worker.pc = "ack"
    /\ sub.pc = "wait"
    /\ worker' = [worker EXCEPT !.pc = "returned"]
    /\ sub' = [sub EXCEPT !.pc = "ack"]
    /\ query' = NoQuery
    /\ UNCHANGED <<proc, startHeight, db, cache, heightManager, nextHeight,
                   currentHeight, lastUpdateTimestamp, mutex, stopPc, head, restarts,
                   faults, calcVars, fetchVars>>

\* the subscription's send back is received by the select loop
TerminateSubToWorker ==
    /\ Alive
    /\ sub.pc = "ack"
    /\ worker.pc = "select"
    /\ sub' = [sub EXCEPT !.pc = "returned"]
    /\ worker' = [worker EXCEPT !.pc = "ack"]
    /\ query' = NoQuery
    /\ UNCHANGED <<proc, startHeight, db, cache, heightManager, nextHeight,
                   currentHeight, lastUpdateTimestamp, mutex, stopPc, head, restarts,
                   faults, calcVars, fetchVars>>

\* Stop: carrier.Close(), db.Stop(), and the deferred unlock
StopReturn ==
    /\ proc = "running"
    /\ stopPc = "close"
    /\ stopPc' = "done"
    /\ mutex' = "free"
    /\ proc' = "stopped"
    /\ query' = NoQuery
    /\ UNCHANGED <<startHeight, db, cache, heightManager, nextHeight, currentHeight,
                   lastUpdateTimestamp, worker, sub, head, restarts, faults, calcVars, fetchVars>>

(***************************************************************************)
(* carrier.SubscribeNewBlock, and the chain                                *)
(***************************************************************************)
\* the ticker fires: the tip is read and sent, or an error is reported
SubscriptionTick ==
    /\ Alive
    /\ sub.pc = "wait"
    /\ \/ \E tip \in Tips(head) :
            /\ head' = tip
            /\ sub' = [pc |-> "sendTip", tip |-> TipInfo(Heads[tip])]
       \/ /\ sub' = [pc |-> "sendErr", tip |-> TipInfo(0)]
          /\ UNCHANGED head
    /\ query' = NoQuery
    /\ UNCHANGED <<proc, startHeight, db, cache, heightManager, nextHeight,
                   currentHeight, lastUpdateTimestamp, mutex, worker, stopPc,
                   restarts, faults, calcVars, fetchVars>>

\* the process ends, and NewCommittee runs again on the same store
Restart ==
    /\ proc # "new"
    /\ restarts < MaxRestarts
    /\ restarts' = restarts + 1
    /\ cache' = <<>>
    /\ heightManager' = newHeightManager
    /\ nextHeight' = startHeight
    /\ currentHeight' = 0
    /\ lastUpdateTimestamp' = 0
    /\ mutex' = "free"
    /\ worker' = NoWorker
    /\ stopPc' = "idle"
    /\ sub' = NoSub
    /\ query' = NoQuery
    /\ proc' = "new"
    /\ UNCHANGED <<startHeight, db, head, faults, calcVars, fetchVars>>

(***************************************************************************)
(* committee: the queries, each under the shared lock                      *)
(***************************************************************************)
QueryTimes == {905, 915}
QueryHeights == {3, 10}

\* ec.mutex.RLock() succeeds
CanRLock == proc = "running" /\ mutex = "free"

HeightByTimeOp(ts) ==
    IF ~(lastUpdateTimestamp > ts) THEN [height |-> 0, err |-> "notExist"]
    ELSE LET height == nearestHeightBefore(heightManager, ts)
         IN IF height = 0 THEN [height |-> 0, err |-> "notExist"]
            ELSE [height |-> height, err |-> "nil"]

resultByHeight(height) ==
    IF height < startHeight THEN [result |-> NilResult, err |-> "lower"]
    ELSE IF (height - startHeight) % Interval # 0
         THEN [result |-> NilResult, err |-> "invalid"]
    ELSE IF cacheHas(cache, height)
         THEN [result |-> cacheGet(cache, height), err |-> "nil"]
    ELSE IF ~dbHas(db, dbKey(height)) THEN [result |-> NilResult, err |-> "notExist"]
    ELSE [result |-> Deserialize(db[dbKey(height)]), err |-> "nil"]

LatestHeightOp ==
    LET l == Len(heightManager.heights)
    IN IF l = 0 THEN 0 ELSE heightManager.heights[l]

HeightByTime ==
    /\ CanRLock
    /\ \E ts \in QueryTimes :
         \E out \in {HeightByTimeOp(ts)} :
            query' = [op |-> "HeightByTime", ts |-> ts,
                      height |-> out.height, err |-> out.err]
    /\ UNCHANGED <<proc, startHeight, db, cache, heightManager, nextHeight,
                   currentHeight, lastUpdateTimestamp, mutex, worker, stopPc, sub,
                   head, restarts, faults, calcVars, fetchVars>>

ResultByHeight ==
    /\ CanRLock
    /\ \E height \in QueryHeights :
         \E out \in {resultByHeight(height)} :
            /\ query' = [op |-> "ResultByHeight", height |-> height,
                         result |-> out.result, err |-> out.err]
            /\ cache' = IF out.err \in {"lower", "invalid"} THEN cache
                        ELSE cachePromote(cache, height)
    /\ UNCHANGED <<proc, startHeight, db, heightManager, nextHeight, currentHeight,
                   lastUpdateTimestamp, mutex, worker, stopPc, sub, head, restarts,
                   faults, calcVars, fetchVars>>

LatestHeight ==
    /\ CanRLock
    /\ query' = [op |-> "LatestHeight", height |-> LatestHeightOp]
    /\ UNCHANGED <<proc, startHeight, db, cache, heightManager, nextHeight,
                   currentHeight, lastUpdateTimestamp, mutex, worker, stopPc, sub,
                   head, restarts, faults, calcVars, fetchVars>>

(***************************************************************************)
(* SpecCalc: one calculator, any sequence of calls                         *)
(***************************************************************************)
vars == <<calcVars, engineVars, fetchVars>>

InitCalculators ==
    /\ calculator = [id \in CalcIds |-> NewResultCalculator]
    /\ result = [id \in CalcIds |-> NoResult]
    /\ ret = [id \in CalcIds |-> NoCall]
    /\ calls = [id \in CalcIds |-> 0]
    /\ skipManified \in BOOLEAN
    /\ blake2b \in [HexNames -> 0..MaxPriority]
    /\ blake2b[hex(NameZero)] = 0

\* the committee of the calculator specifications: built and never started
IdleEngine ==
    /\ startHeight = 0
    /\ db = <<>>
    /\ head = 0
    /\ restarts = 0
    /\ faults = 0
    /\ NewCommittee

InitCalc ==
    /\ IdleEngine
    /\ IdleFetch
    /\ InitCalculators
    /\ \E t \in Thresholds : selfStakingThreshold = t[1] /\ scoreThreshold = t[2]
    /\ inputRegs = {}
    /\ inputBuckets = {}
    /\ detPc = [id \in CalcIds |-> "off"]
    /\ detOrder = NoOrder
    /\ detDiffers = NoDiffers
    /\ callLog = <<>>

Call(id, op, out) ==
    /\ calculator' = [calculator EXCEPT ![id] = out.calc]
    /\ ret' = [ret EXCEPT ![id] = [op |-> op, err |-> out.err]]
    /\ calls' = [calls EXCEPT ![id] = @ + 1]

AddRegistrations(id, list) ==
    /\ Call(id, "AddRegistrations", AddRegistrationsOp(calculator[id], list))
    /\ UNCHANGED result

AddBuckets(id, list) ==
    /\ Call(id, "AddBuckets", AddBucketsOp(calculator[id], list))
    /\ UNCHANGED result

Calculate(id, order) ==
    LET out == CalculateOp(calculator[id], order)
    IN /\ Call(id, "Calculate", out)
       /\ result' = IF out.err = "nil" THEN [result EXCEPT ![id] = out.result]
                     ELSE result

CalcAddRegistrations ==
    /\ calls[1] < MaxCalls
    /\ \E list \in SeqsUpTo(Registrations, MaxRegList) : AddRegistrations(1, list)
    /\ UNCHANGED <<calcConfig, detPc, detOrder, detDiffers, callLog, engineVars, fetchVars>>

CalcAddBuckets ==
    /\ calls[1] < MaxCalls
    /\ \E list \in SeqsUpTo(Buckets, MaxBucketList) : AddBuckets(1, list)
    /\ UNCHANGED <<calcConfig, detPc, detOrder, detDiffers, callLog, engineVars, fetchVars>>

CalcCalculate ==
    /\ calls[1] < MaxCalls
    /\ \E order \in MapOrders(calculator[1]) : Calculate(1, order)
    /\ UNCHANGED <<calcConfig, detPc, detOrder, detDiffers, callLog, engineVars, fetchVars>>

NextCalc == CalcAddRegistrations \/ CalcAddBuckets \/ CalcCalculate

SpecCalc == InitCalc /\ [][NextCalc]_vars

(***************************************************************************)
(* SpecDet: two calculators built alike and given the same registrations   *)
(* and buckets, each in an order of its own, as fetchResultByHeight drives *)
(* them: AddRegistrations, AddBuckets, Calculate, stopping at an error.    *)
(* A calculator is local to the fetch that made it, so a run is one step.  *)
(***************************************************************************)
InitDet ==
    /\ IdleEngine
    /\ IdleFetch
    /\ InitCalculators
    /\ selfStakingThreshold = 0
    /\ scoreThreshold = 0
    /\ inputRegs \in SubsetsUpTo(DetRegistrations, MaxDetRegs)
    /\ inputBuckets \in SubsetsUpTo(DetBuckets, MaxDetBuckets)
    /\ detPc = [id \in CalcIds |-> "new"]
    /\ detOrder = NoOrder
    /\ detDiffers = NoDiffers
    /\ callLog = <<>>

\* the calculator part of fetchResultByHeight: the three calls in turn, the
\* first error returned
Returned(out, op) ==
    [calc |-> out.calc, err |-> out.err, op |-> op,
     result |-> IF op = "Calculate" THEN out.result ELSE NoResult]

AfterAddBuckets(r2, order) ==
    IF r2.err # "nil" THEN Returned(r2, "AddBuckets")
    ELSE Returned(CalculateOp(r2.calc, order), "Calculate")

AfterAddRegistrations(r1, bkts, order) ==
    IF r1.err # "nil" THEN Returned(r1, "AddRegistrations")
    ELSE AfterAddBuckets(AddBucketsOp(r1.calc, bkts), order)

FetchPipeline(c, regs, bkts, order) ==
    AfterAddRegistrations(AddRegistrationsOp(c, regs), bkts, order)

\* the iteration orders the candidate map may take once regs are added
PipelineMapOrders(c, regs) == MapOrders(AddRegistrationsOp(c, regs).calc)

DetRun(id, regs, bkts, order) ==
    \E out \in {FetchPipeline(calculator[id], regs, bkts, order)} :
       /\ calculator' = [calculator EXCEPT ![id] = out.calc]
       /\ ret' = [ret EXCEPT ![id] = [op |-> out.op, err |-> out.err]]
       /\ calls' = [calls EXCEPT ![id] = @ + 1]
       /\ result' = [result EXCEPT ![id] = out.result]
       /\ detPc' = [detPc EXCEPT ![id] = IF out.err = "nil" THEN "done" ELSE "failed"]

DetRunFirst ==
    /\ detPc[1] = "new"
    /\ \E regs \in Enumerations(inputRegs), bkts \in Enumerations(inputBuckets) :
         \E order \in PipelineMapOrders(calculator[1], regs) :
            /\ DetRun(1, regs, bkts, order)
            /\ detOrder' = [regs |-> regs, map |-> order]
    /\ UNCHANGED <<calcConfig, detDiffers, callLog, engineVars, fetchVars>>

DetRunSecond ==
    /\ detPc[1] = "done"
    /\ detPc[2] = "new"
    /\ \E regs \in Enumerations(inputRegs), bkts \in Enumerations(inputBuckets) :
         \E order \in PipelineMapOrders(calculator[2], regs) :
            /\ DetRun(2, regs, bkts, order)
            /\ detDiffers' = [regs |-> regs # detOrder.regs, map |-> order # detOrder.map]
    /\ UNCHANGED <<calcConfig, detOrder, callLog, engineVars, fetchVars>>

NextDet == DetRunFirst \/ DetRunSecond

SpecDet == InitDet /\ [][NextDet]_vars

(***************************************************************************)
(* SpecAcct: one calculator with the default thresholds, every call        *)
(* recorded in callLog with the list it was given, so that what the        *)
(* calculator holds can be set against what it was supplied.               *)
(***************************************************************************)
InitAcct ==
    /\ IdleEngine
    /\ IdleFetch
    /\ calculator = [id \in CalcIds |-> NewResultCalculator]
    /\ result = [id \in CalcIds |-> NoResult]
    /\ ret = [id \in CalcIds |-> NoCall]
    /\ calls = [id \in CalcIds |-> 0]
    /\ skipManified \in BOOLEAN
    /\ blake2b = [n \in HexNames |-> 0]
    /\ selfStakingThreshold = 0
    /\ scoreThreshold = 0
    /\ inputRegs = {}
    /\ inputBuckets = {}
    /\ detPc = [id \in CalcIds |-> "off"]
    /\ detOrder = NoOrder
    /\ detDiffers = NoDiffers
    /\ callLog = <<>>

Logged(op, list) == callLog' = Append(callLog, [op |-> op, list |-> list])

AcctAddRegistrations ==
    /\ calls[1] < MaxCalls
    /\ \E list \in SeqsUpTo(Registrations, MaxRegList) :
          AddRegistrations(1, list) /\ Logged("AddRegistrations", list)
    /\ UNCHANGED <<calcConfig, detPc, detOrder, detDiffers, engineVars, fetchVars>>

AcctAddBuckets ==
    /\ calls[1] < MaxCalls
    /\ \E list \in SeqsUpTo(Buckets, MaxBucketList) :
          AddBuckets(1, list) /\ Logged("AddBuckets", list)
    /\ UNCHANGED <<calcConfig, detPc, detOrder, detDiffers, engineVars, fetchVars>>

AcctCalculate ==
    /\ calls[1] < MaxCalls
    /\ \E order \in MapOrders(calculator[1]) :
          Calculate(1, order) /\ Logged("Calculate", <<>>)
    /\ UNCHANGED <<calcConfig, detPc, detOrder, detDiffers, engineVars, fetchVars>>

NextAcct == AcctAddRegistrations \/ AcctAddBuckets \/ AcctCalculate

SpecAcct == InitAcct /\ [][NextAcct]_vars

(***************************************************************************)
(* Spec: the committee, from NewCommittee on                               *)
(***************************************************************************)
\* the calculators of the committee specification: built and never called
IdleCalculators ==
    /\ calculator = [id \in CalcIds |-> NewResultCalculator]
    /\ result = [id \in CalcIds |-> NoResult]
    /\ ret = [id \in CalcIds |-> NoCall]
    /\ calls = [id \in CalcIds |-> 0]
    /\ skipManified = FALSE
    /\ blake2b = [n \in HexNames |-> 0]
    /\ selfStakingThreshold = 0
    /\ scoreThreshold = 0
    /\ inputRegs = {}
    /\ inputBuckets = {}
    /\ detPc = [id \in CalcIds |-> "off"]
    /\ detOrder = NoOrder
    /\ detDiffers = NoDiffers
    /\ callLog = <<>>

Init == InitEngine /\ IdleCalculators

Next ==
    \/ Start
    \/ CatchUpRound
    \/ CatchUpTip
    \/ StoreDone
    \/ StoreAborts
    \/ StoreFatal
    \/ StorePutResult
    \/ StorePutNextHeight
    \/ StoreCacheInsert
    \/ StoreAdd
    \/ ReceiveTip
    \/ ReceiveReport
    \/ SyncFetch
    \/ SyncLock
    \/ StopLock
    \/ TerminateStopToWorker
    \/ TerminateStopToSub
    \/ TerminateWorkerToSub
    \/ TerminateSubToWorker
    \/ StopReturn
    \/ SubscriptionTick
    \/ Restart
    \/ HeightByTime
    \/ ResultByHeight
    \/ LatestHeight

Spec == Init /\ [][Next]_vars

(***************************************************************************)
(* SpecLive: the committee started once and left running, with the chain   *)
(* growing whether or not the committee looks at it, and with fairness:    *)
(* the worker goroutine and the subscription keep taking their steps, and  *)
(* the subscription keeps delivering tips. Fetches and writes fail only    *)
(* MaxFaults times in all, so every fetch succeeds in the end.             *)
(***************************************************************************)
\* the chain grows by a block
NewBlock ==
    /\ head < MaxHeadIndex
    /\ head' = head + 1
    /\ query' = NoQuery
    /\ UNCHANGED <<proc, startHeight, db, cache, heightManager, nextHeight,
                   currentHeight, lastUpdateTimestamp, mutex, worker, stopPc, sub,
                   restarts, faults, calcVars, fetchVars>>

\* the steps of the goroutine Start spawns
WorkerStep ==
    \/ CatchUpRound
    \/ CatchUpTip
    \/ StoreDone
    \/ StoreAborts
    \/ StoreFatal
    \/ StorePutResult
    \/ StorePutNextHeight
    \/ StoreCacheInsert
    \/ StoreAdd
    \/ ReceiveTip
    \/ ReceiveReport
    \/ SyncFetch
    \/ SyncLock

\* the subscription reads the tip and offers it on tipChan
TipEvent == SubscriptionTick /\ sub'.pc = "sendTip"

NextLive == Start \/ WorkerStep \/ SubscriptionTick \/ NewBlock

SpecLive ==
    /\ Init
    /\ [][NextLive]_vars
    /\ WF_vars(Start)
    /\ WF_vars(WorkerStep)
    /\ WF_vars(NewBlock)
    /\ SF_vars(TipEvent)

(***************************************************************************)
(* SpecFetch: one call of fetchInBatch on a new committee, a step per      *)
(* statement of the loop and of each goroutine it spawns, with the         *)
(* attempts of retryFetchResultByHeight.                                   *)
(***************************************************************************)
\* the tips fetchInBatch is called with: batches of one, two and three
FetchTips == {12, 22, 32}

\* NewCommittee: NumOfFetchInParallel 0 stands for 10; the values here are
\* those of cfg.NumOfFetchInParallel = 1..MaxParallel
ParallelOf(numOfFetchInParallel) ==
    IF numOfFetchInParallel > 0 THEN numOfFetchInParallel ELSE 10

InitFetch ==
    /\ IdleEngine
    /\ IdleCalculators
    /\ fetchInParallel \in { ParallelOf(n) : n \in 1..MaxParallel }
    /\ retryLimit \in 0..MaxRetryLimit
    /\ fetchMain = [pc |-> "idle", nextHeight |-> 0]
    /\ limiter = 0
    /\ wg = 0
    /\ fetcher = <<>>
    /\ results = <<>>
    /\ errs = <<>>

engineButCurrentHeight ==
    <<proc, startHeight, db, cache, heightManager, nextHeight, lastUpdateTimestamp,
      mutex, worker, stopPc, sub, head, query, restarts, faults>>

NotSpawned == [pc |-> "none", tried |-> 0, result |-> NilResult, err |-> "nil"]

\* fetchInBatch(tipHeight) up to its loop
FetchEnter ==
    /\ fetchMain.pc = "idle"
    /\ \E tipHeight \in FetchTips :
          /\ currentHeight' = RaisedHeight(currentHeight, tipHeight)
          /\ fetcher' = [h \in BatchHeights(nextHeight, RaisedHeight(currentHeight, tipHeight))
                            |-> NotSpawned]
    /\ fetchMain' = [pc |-> "loop", nextHeight |-> nextHeight]
    /\ limiter' = 0
    /\ wg' = 0
    /\ results' = <<>>
    /\ errs' = <<>>
    /\ UNCHANGED <<fetchInParallel, retryLimit, engineButCurrentHeight, calcVars>>

\* an iteration of the loop: wg.Add(1) and the go statement
FetchSpawn ==
    /\ fetchMain.pc = "loop"
    /\ fetchMain.nextHeight <= currentHeight - Margin
    /\ wg' = wg + 1
    /\ fetcher' = [fetcher EXCEPT ![fetchMain.nextHeight].pc = "send"]
    /\ fetchMain' = [fetchMain EXCEPT !.nextHeight = @ + Interval]
    /\ UNCHANGED <<fetchInParallel, retryLimit, limiter, results, errs, engineVars,
                   calcVars>>

\* the loop ends: wg.Wait() is next
FetchLoopEnds ==
    /\ fetchMain.pc = "loop"
    /\ fetchMain.nextHeight > currentHeight - Margin
    /\ fetchMain' = [fetchMain EXCEPT !.pc = "wait"]
    /\ UNCHANGED <<fetchInParallel, retryLimit, limiter, wg, fetcher, results, errs,
                   engineVars, calcVars>>

\* a send on limiter goes through without a slot being free
SendsAlways(n) == TRUE

\* a send on the buffered channel limiter goes through when it holds fewer
\* values than its capacity
CanSend(n) == n < fetchInParallel

\* limiter <- true
FetcherSend(h) ==
    /\ fetcher[h].pc = "send"
    /\ CanSend(limiter)
    /\ limiter' = limiter + 1
    /\ fetcher' = [fetcher EXCEPT ![h].pc = "fetch"]
    /\ UNCHANGED <<fetchInParallel, retryLimit, fetchMain, wg, results, errs,
                   engineVars, calcVars>>

\* the loop of retryFetchResultByHeight goes on while i < retryLimit
RetriesLeft(tried) == tried < retryLimit

\* retryFetchResultByHeight: a call of fetchResultByHeight that succeeds, and
\* the return of its result
FetcherAttemptSucceeds(h) ==
    /\ fetcher[h].pc = "fetch"
    /\ RetriesLeft(fetcher[h].tried)
    /\ fetcher' = [fetcher EXCEPT ![h] = [pc |-> "assign", tried |-> @.tried + 1,
                                          result |-> ElectionResult(TimeOf(h)),
                                          err |-> "nil"]]
    /\ UNCHANGED <<fetchInParallel, retryLimit, fetchMain, limiter, wg, results, errs,
                   engineVars, calcVars>>

\* retryFetchResultByHeight: a call of fetchResultByHeight that fails
FetcherAttemptFails(h) ==
    /\ fetcher[h].pc = "fetch"
    /\ RetriesLeft(fetcher[h].tried)
    /\ fetcher' = [fetcher EXCEPT ![h] = [pc |-> "fetch", tried |-> @.tried + 1,
                                          result |-> NilResult, err |-> "error"]]
    /\ UNCHANGED <<fetchInParallel, retryLimit, fetchMain, limiter, wg, results, errs,
                   engineVars, calcVars>>

\* retryFetchResultByHeight: the loop is over, return result, err
FetcherGivesUp(h) ==
    /\ fetcher[h].pc = "fetch"
    /\ ~RetriesLeft(fetcher[h].tried)
    /\ fetcher' = [fetcher EXCEPT ![h].pc = "assign"]
    /\ UNCHANGED <<fetchInParallel, retryLimit, fetchMain, limiter, wg, results, errs,
                   engineVars, calcVars>>

\* the goroutines inside the assignment to the maps results and errs:
\* "writing" alone so far, "raced" once another goroutine has been inside it
\* at the same time
InAssignment == { g \in DOMAIN fetcher : fetcher[g].pc \in {"writing", "raced"} }

\* results[height], errs[height] = ...: the goroutine begins to write the two
\* maps. Nothing orders it after the goroutines that are writing them.
FetcherBeginsWrite(h) ==
    /\ fetcher[h].pc = "assign"
    /\ fetcher' = [g \in DOMAIN fetcher |->
                     IF InAssignment = {} THEN
                         IF g = h THEN [fetcher[g] EXCEPT !.pc = "writing"] ELSE fetcher[g]
                     ELSE IF g = h \/ g \in InAssignment
                          THEN [fetcher[g] EXCEPT !.pc = "raced"]
                          ELSE fetcher[g]]
    /\ UNCHANGED <<fetchInParallel, retryLimit, fetchMain, limiter, wg, results, errs,
                   engineVars, calcVars>>

\* what a write of a Go map can come to: alone, the entries are stored; raced
\* by another write of the same maps (a data race), the entries are stored,
\* or they are lost, or the runtime ends the process with
\* "fatal error: concurrent map writes"
WriteOutcomes(h) ==
    IF fetcher[h].pc = "raced" THEN {"stored", "lost", "fatal"} ELSE {"stored"}

\* results[height], errs[height] = what retryFetchResultByHeight returned
FetcherAssign(h) ==
    /\ fetcher[h].pc \in {"writing", "raced"}
    /\ \E outcome \in WriteOutcomes(h) :
         IF outcome = "fatal"
         THEN /\ fetchMain' = [fetchMain EXCEPT !.pc = "crashed"]
              /\ fetcher' = [g \in DOMAIN fetcher |-> [fetcher[g] EXCEPT !.pc = "killed"]]
              /\ limiter' = 0
              /\ wg' = 0
              /\ UNCHANGED <<results, errs>>
         ELSE /\ results' = IF outcome = "stored"
                            THEN (h :> fetcher[h].result) @@ results ELSE results
              /\ errs' = IF outcome = "stored"
                         THEN (h :> fetcher[h].err) @@ errs ELSE errs
              /\ fetcher' = [fetcher EXCEPT ![h].pc = "receive"]
              /\ UNCHANGED <<fetchMain, limiter, wg>>
    /\ UNCHANGED <<fetchInParallel, retryLimit, engineVars, calcVars>>

\* deferred: <-limiter
FetcherReceive(h) ==
    /\ fetcher[h].pc = "receive"
    /\ limiter > 0
    /\ limiter' = limiter - 1
    /\ fetcher' = [fetcher EXCEPT ![h].pc = "done"]
    /\ UNCHANGED <<fetchInParallel, retryLimit, fetchMain, wg, results, errs,
                   engineVars, calcVars>>

\* deferred: wg.Done(), and the goroutine ends
FetcherDone(h) ==
    /\ fetcher[h].pc = "done"
    /\ wg' = wg - 1
    /\ fetcher' = [fetcher EXCEPT ![h].pc = "ended"]
    /\ UNCHANGED <<fetchInParallel, retryLimit, fetchMain, limiter, results, errs,
                   engineVars, calcVars>>

\* wg.Wait() returns, and fetchInBatch with it
FetchReturns ==
    /\ fetchMain.pc = "wait"
    /\ wg = 0
    /\ fetchMain' = [fetchMain EXCEPT !.pc = "returned"]
    /\ UNCHANGED <<fetchInParallel, retryLimit, limiter, wg, fetcher, results, errs,
                   engineVars, calcVars>>

FetchSend == \E h \in DOMAIN fetcher : FetcherSend(h)
FetchAttemptSucceeds == \E h \in DOMAIN fetcher : FetcherAttemptSucceeds(h)
FetchAttemptFails == \E h \in DOMAIN fetcher : FetcherAttemptFails(h)
FetchGivesUp == \E h \in DOMAIN fetcher : FetcherGivesUp(h)
FetchBeginWrite == \E h \in DOMAIN fetcher : FetcherBeginsWrite(h)
FetchAssign == \E h \in DOMAIN fetcher : FetcherAssign(h)
FetchReceive == \E h \in DOMAIN fetcher : FetcherReceive(h)
FetchDone == \E h \in DOMAIN fetcher : FetcherDone(h)

NextFetch ==
    \/ FetchEnter
    \/ FetchSpawn
    \/ FetchLoopEnds
    \/ FetchSend
    \/ FetchAttemptSucceeds
    \/ FetchAttemptFails
    \/ FetchGivesUp
    \/ FetchBeginWrite
    \/ FetchAssign
    \/ FetchReceive
    \/ FetchDone
    \/ FetchReturns

SpecFetch == InitFetch /\ [][NextFetch]_vars

(***************************************************************************)
(* Properties of the calculator                                            *)
(***************************************************************************)
ItemOf(c, name) ==
    [Key |-> name, Value |-> c.candidates[name].score, Priority |-> Priority(name)]

\* a before b in the composite order: score, then priority, then hex name,
\* each descending
CompositeGreater(a, b) ==
    \/ a.Value > b.Value
    \/ a.Value = b.Value /\ a.Priority > b.Priority
    \/ a.Value = b.Value /\ a.Priority = b.Priority /\ StringsCompare(a.Key, b.Key) = 1

DelegateNames(id) == { result[id].delegates[i] : i \in 1..Len(result[id].delegates) }

Qualifiers(c) == { n \in DOMAIN c.candidates : ~candidateFilter(c.candidates[n]) }

\* C2: the delegates Calculate returned are strictly descending in the
\* composite order (score, priority, hex name) and are exactly the candidates
\* of the calculator that candidateFilter keeps, each once.
C2_DelegatesRanked ==
    result[1].returned =>
        LET d == result[1].delegates
            c == calculator[1]
        IN /\ \A i, j \in 1..Len(d) :
                 i < j => CompositeGreater(ItemOf(c, d[i]), ItemOf(c, d[j]))
           /\ DelegateNames(1) = Qualifiers(c)
           /\ Len(d) = Cardinality(Qualifiers(c))

\* two delegates tie on score and priority and the name decides
C2_Witness ==
    /\ result[1].returned
    /\ Len(result[1].delegates) = 2
    /\ LET a == ItemOf(calculator[1], result[1].delegates[1])
           b == ItemOf(calculator[1], result[1].delegates[2])
       IN a.Value = b.Value /\ a.Priority = b.Priority

\* when both calculators return a result, the results rank the same delegates
\* in the same order
SameRankingWhenBothReturn ==
    (detPc[1] = "done" /\ detPc[2] = "done") =>
        /\ result[1].delegates = result[2].delegates
        /\ ResultView(calculator[1], result[1]).delegates
             = ResultView(calculator[2], result[2]).delegates

\* C3: two calculators built alike and given the same registrations and the
\* same buckets, in whatever orders, and iterating their candidate maps in
\* whatever orders, return the same ranked delegates: when the first has
\* returned a result, the second, once through, has returned one that ranks
\* the same delegates in the same order.
C3_SameRankingAnyOrder ==
    (detPc[1] = "done" /\ detPc[2] # "new") =>
        /\ detPc[2] = "done"
        /\ SameRankingWhenBothReturn

\* C9: once Calculate has returned a result, every later call returns the
\* "calculated" error and changes neither the calculator nor anything read
\* through the returned ElectionResult.
C9_SingleShot ==
    [][calculator[1].calculated =>
          /\ ret'[1].err = "calculated"
          /\ calculator'[1] = calculator[1]
          /\ result'[1] = result[1]
          /\ ResultView(calculator'[1], result'[1]) = ResultView(calculator[1], result[1])
      ]_vars

\* AddBuckets was refused after a Calculate that returned a delegate
C9_Witness ==
    /\ calculator[1].calculated
    /\ result[1].returned
    /\ Len(result[1].delegates) > 0
    /\ ret[1] = [op |-> "AddBuckets", err |-> "calculated"]

\* a bucket passed the filters and was counted
VotesRecorded(c) ==
    \/ c.totalVotedStakes > 0
    \/ \E n \in DOMAIN c.candidateVotes : c.candidateVotes[n] # <<>>

\* C10: AddRegistrations returns an error whenever a vote was recorded before
\* it, whatever score the vote got (AddRegistrations records no vote itself,
\* so votes present after it were present before it).
C10_RegistrationsAfterVotesFail ==
    (ret[1].op = "AddRegistrations" /\ VotesRecorded(calculator[1]))
        => ret[1].err # "nil"

(***************************************************************************)
(* Properties of the committee                                             *)
(***************************************************************************)
\* C1: the heights the height manager holds are strictly increasing, each is
\* startHeight + k*interval for a k >= 0, and the mint times held beside them
\* are strictly increasing.
C1_CommittedSequence ==
    LET m == heightManager
        l == Len(m.heights)
    IN /\ Len(m.times) = l
       /\ \A i \in 1..l :
            m.heights[i] >= startHeight /\ (m.heights[i] - startHeight) % Interval = 0
       /\ \A i \in 1..l, j \in 1..l :
            i < j => (m.heights[i] < m.heights[j] /\ m.times[i] < m.times[j])

\* after a restart, Start has restored the ledger from the store and a batch
\* of two heights or more has gone through on top of it
C1_Witness ==
    /\ restarts = 1
    /\ proc = "running"
    /\ Len(heightManager.heights) >= 3
    /\ lastUpdateTimestamp > 0
    /\ worker.pc = "select"

\* the committed heights whose mint time is not after ts
CommittedBy(ts) ==
    { heightManager.heights[i] :
        i \in { k \in 1..Len(heightManager.heights) : heightManager.times[k] <= ts } }

Max(S) == CHOOSE x \in S : \A y \in S : y <= x

\* C4: a HeightByTime(ts) returns the greatest committed height whose mint
\* time is not after ts when lastUpdateTimestamp is after ts and there is such
\* a height, and NotExist otherwise.
C4_HeightByTime ==
    query.op = "HeightByTime" =>
        IF lastUpdateTimestamp > query.ts /\ CommittedBy(query.ts) # {}
        THEN query.err = "nil" /\ query.height = Max(CommittedBy(query.ts))
        ELSE query.err = "notExist"

\* the epoch heights of the chain as far as the committee has seen it
EpochHeights ==
    { h \in startHeight..Heads[head] : (h - startHeight) % Interval = 0 }

\* C5: whenever lastUpdateTimestamp is after ts, every epoch height of the
\* chain that was minted at ts or before is committed.
C5_LedgerExtendsPast ==
    \A ts \in QueryTimes :
        lastUpdateTimestamp > ts =>
            \A h \in EpochHeights :
                TimeOf(h) <= ts => h \in HmHeights(heightManager)

\* C6: a query that has just returned under the shared lock saw every height
\* of the cache in the height manager too.
C6_NoTornRead ==
    query.op # "none" => CacheHeights(cache) \subseteq HmHeights(heightManager)

\* C7: Stop never holds the lock blocked on the termination channel while
\* the worker waits for the lock and nobody is left to receive.
C7_NoStopDeadlock ==
    ~(/\ stopPc = "send"
      /\ mutex = "stop"
      /\ worker.pc = "lock"
      /\ sub.pc \in {"sendTip", "sendErr"})

\* C8: for every height in the cache, the store holds under the height's key
\* the serialization of the cached result, so decoding it gives that result.
C8_CacheMatchesStore ==
    \A i \in 1..Len(cache) :
        /\ dbHas(db, dbKey(cache[i].height))
        /\ db[dbKey(cache[i].height)] = Serialize(cache[i].result)
        /\ Deserialize(db[dbKey(cache[i].height)]) = cache[i].result

\* after a restart the cache holds results again, the worker is idle, and the
\* store holds a result at the very height NextHeightKey points to: the
\* second write of a storeResult did not happen
C8_Witness ==
    /\ restarts = 1
    /\ proc = "running"
    /\ worker.pc = "select"
    /\ cache # <<>>
    /\ dbHas(db, NextHeightKey)
    /\ dbHas(db, dbKey(BytesToUint64(db[NextHeightKey])))


(***************************************************************************)
(* Properties of the calculator's accounting, checked under SpecAcct       *)
(***************************************************************************)
Front(s) == SubSeq(s, 1, Len(s) - 1)
Last(s) == s[Len(s)]

RECURSIVE Replay(_)
\* the calculator after the calls of log were made on a new one; Calculate
\* leaves the fields alone but for calculated, whatever the map order
Replay(log) ==
    IF log = <<>> THEN NewResultCalculator
    ELSE LET c == Replay(Front(log))
             e == Last(log)
         IN CASE e.op = "AddRegistrations" -> AddRegistrationsOp(c, e.list).calc
              [] e.op = "AddBuckets" -> AddBucketsOp(c, e.list).calc
              [] OTHER -> [c EXCEPT !.calculated = TRUE]

NamesOf(list) == { hex(list[i].name) : i \in 1..Len(list) }

RECURSIVE AcceptedNames(_)
\* the hex names of the registrations of the calls of AddRegistrations in log
\* that returned no error
AcceptedNames(log) ==
    IF log = <<>> THEN {}
    ELSE LET e == Last(log)
             before == Replay(Front(log))
         IN AcceptedNames(Front(log)) \cup
            (IF e.op = "AddRegistrations"
                /\ AddRegistrationsOp(before, e.list).err = "nil"
             THEN NamesOf(e.list) ELSE {})

\* the last call was AddRegistrations and got past its two guards
RegistrationsLooped ==
    /\ callLog # <<>>
    /\ Last(callLog).op = "AddRegistrations"
    /\ ret[1].op = "AddRegistrations"
    /\ ret[1].err \in {"nil", "duplicate"}

\* a registration of list has the name of one before it in list, or of one
\* of a call that went through
RepeatsAName(list, earlier) ==
    \E i \in 1..Len(list) :
        hex(list[i].name) \in earlier \cup NamesOf(SubSeq(list, 1, i - 1))

\* C11: whenever a registration given to AddRegistrations has the hex name of
\* a registration supplied before it, in the same call or in an earlier call
\* that returned no error, the call returns the duplicate-candidate error,
\* whatever skipManified and the selfStakingWeights are.
C11_DuplicatesRejected ==
    (RegistrationsLooped
        /\ RepeatsAName(Last(callLog).list, AcceptedNames(Front(callLog))))
    => ret[1].err = "duplicate"

\* a bucket with no candidate, or with the reserved name of 12 zero bytes
Reserved(bucket) == bucket.candidate = NilBytes \/ bucket.candidate = NameZero

Unreserved(list) == SelectSeq(list, LAMBDA b : ~Reserved(b))

\* log with those buckets taken out of the lists given to AddBuckets
StripReserved(log) ==
    [i \in 1..Len(log) |->
        IF log[i].op = "AddBuckets"
        THEN [log[i] EXCEPT !.list = Unreserved(@)]
        ELSE log[i]]

\* C12: buckets naming the reserved 12-zero-byte name, or no candidate, are
\* discarded: after any calls the totals, the candidates (score and
\* selfStakingTokens) and their vote lists are those of the same calls without
\* these buckets, and so is the ranking Calculate returned.
C12_ReservedBucketsDiscarded ==
    LET without == Replay(StripReserved(callLog))
    IN /\ calculator[1] = without
       /\ result[1].returned =>
            \A order \in MapOrders(without) :
                result[1].delegates = filterAndSortCandidates(without, order)

\* a reserved bucket was given to AddBuckets before Calculate, a counted one too
C12_Witness ==
    /\ calculator[1].totalVotes > 0
    /\ \E i \in 1..Len(callLog) :
          /\ callLog[i].op = "AddBuckets"
          /\ ~Replay(SubSeq(callLog, 1, i - 1)).calculated
          /\ \E k \in 1..Len(callLog[i].list) :
                callLog[i].list[k].candidate = NameZero
    /\ hex(NameZero) \in DOMAIN calculator[1].candidates

\* C13: the reserved 12-zero-byte name is never a delegate: the delegate list
\* Calculate returns holds no candidate whose hex name is candidateZero, also
\* when a registration with that name was supplied.
C13_ZeroNameNeverDelegate ==
    result[1].returned =>
        \A i \in 1..Len(result[1].delegates) : result[1].delegates[i] # candidateZero

\* the last call was AddBuckets, on a calculator not yet calculated
BucketsLooped ==
    /\ callLog # <<>>
    /\ Last(callLog).op = "AddBuckets"
    /\ ret[1].op = "AddBuckets"
    /\ ret[1].err = "nil"

\* a bucket AddBuckets accounts for: not filtered, naming an unreserved name
Counted(bucket) == ~bucketFilter(bucket) /\ ~Reserved(bucket)

RECURSIVE Sum(_)
Sum(s) == IF s = <<>> THEN 0 ELSE Head(s) + Sum(Tail(s))

SumOver(list, F(_)) == Sum([i \in 1..Len(list) |-> F(list[i])])

\* the weight the claim gives a bucket: k for a self vote of a registered
\* candidate with selfStakingWeight k, 1 for every other bucket
ClaimedFactor(c, bucket) ==
    LET n == hex(bucket.candidate)
    IN IF n \in DOMAIN c.candidates /\ bucket.voter = c.candidates[n].address
       THEN c.candidates[n].selfStakingWeight
       ELSE 1

IsSelfVote(c, bucket) ==
    LET n == hex(bucket.candidate)
    IN n \in DOMAIN c.candidates /\ bucket.voter = c.candidates[n].address

\* C14: self-vote scaling. In a call of AddBuckets every unfiltered bucket of
\* the voter A naming a registered candidate with address A and
\* selfStakingWeight k adds k*amount to totalVotedStakes, k*score to
\* totalVotes, k*amount to the candidate's selfStakingTokens and k*score to
\* its score, and its Vote carries k*score; a bucket of another voter adds
\* its amount and score unscaled and nothing to selfStakingTokens. Weight 3,
\* amount 10, score 10 gives 30 everywhere.
C14_SelfVoteScaling ==
    BucketsLooped =>
      LET before == Replay(Front(callLog))
          after == calculator[1]
          counted == SelectSeq(Last(callLog).list, Counted)
          Stake(b) == ClaimedFactor(before, b) * b.amount
          Score(b) == ClaimedFactor(before, b) * calcScore(b, MintTime)
      IN /\ after.totalVotedStakes = before.totalVotedStakes + SumOver(counted, Stake)
         /\ after.totalVotes = before.totalVotes + SumOver(counted, Score)
         /\ DOMAIN after.candidates = DOMAIN before.candidates
         /\ \A n \in DOMAIN before.candidates :
              LET naming == SelectSeq(counted, LAMBDA b : hex(b.candidate) = n)
                  SelfStake(b) == IF IsSelfVote(before, b) THEN Stake(b) ELSE 0
              IN /\ after.candidates[n].score =
                        before.candidates[n].score + SumOver(naming, Score)
                 /\ after.candidates[n].selfStakingTokens =
                        before.candidates[n].selfStakingTokens
                            + SumOver(naming, SelfStake)
                 /\ after.candidateVotes[n] =
                        before.candidateVotes[n] \o
                        [i \in 1..Len(naming) |->
                            [bucket |-> naming[i], score |-> Score(naming[i])]]
         /\ \A b \in Buckets :
              (Last(callLog).list = <<b>> /\ Counted(b) /\ IsSelfVote(before, b)
                  /\ before.candidates[hex(b.candidate)].selfStakingWeight = 3
                  /\ b.amount = 10 /\ b.startTime <= MintTime
                  /\ before.totalVotes = 0 /\ before.totalVotedStakes = 0)
              => /\ after.candidates[hex(b.candidate)].selfStakingTokens = 30
                 /\ after.candidates[hex(b.candidate)].score = 30
                 /\ after.totalVotedStakes = 30
                 /\ after.totalVotes = 30

\* the example of the claim: a self vote of 10 for a candidate of weight 3
C14_Witness ==
    /\ BucketsLooped
    /\ Last(callLog).list = <<Bkt(1, NameAA, 10, 0)>>
    /\ hex(NameAA) \in DOMAIN calculator[1].candidates
    /\ calculator[1].candidates[hex(NameAA)].selfStakingWeight = 3
    /\ calculator[1].candidates[hex(NameAA)].selfStakingTokens = 30
    /\ calculator[1].totalVotes = 30

RECURSIVE AcceptedRegistrations(_)
\* the registrations of the calls of AddRegistrations in log that returned no
\* error, in the order supplied
AcceptedRegistrations(log) ==
    IF log = <<>> THEN <<>>
    ELSE LET e == Last(log)
             before == Replay(Front(log))
         IN AcceptedRegistrations(Front(log)) \o
            (IF e.op = "AddRegistrations"
                /\ AddRegistrationsOp(before, e.list).err = "nil"
             THEN e.list ELSE <<>>)

\* the hex names of the accepted registrations with selfStakingWeight > 1
ManifiedNames(log) ==
    LET regs == AcceptedRegistrations(log)
    IN { hex(regs[i].name) : i \in { j \in 1..Len(regs) : regs[j].selfStakingWeight > 1 } }

RECURSIVE SuppliedRegistrations(_)
\* the registrations of all the calls of AddRegistrations in log
SuppliedRegistrations(log) ==
    IF log = <<>> THEN <<>>
    ELSE SuppliedRegistrations(Front(log)) \o
         (IF Last(log).op = "AddRegistrations" THEN Last(log).list ELSE <<>>)

\* the hex names supplied by more than one registration
ReusedNames(log) ==
    LET regs == SuppliedRegistrations(log)
    IN { hex(regs[i].name) : i \in { j \in 1..Len(regs) :
            \E k \in 1..Len(regs) : k # j /\ regs[k].name = regs[j].name } }

\* what the claim says of the names in skipped: none is a delegate or a key of
\* the vote map, and a call of AddBuckets whose counted buckets all name one
\* of them, or an unregistered candidate, adds the unscaled amounts and scores
\* to the totals and leaves every candidate and vote list as it was
SkippedEverywhere(skipped) ==
    /\ result[1].returned =>
          /\ \A i \in 1..Len(result[1].delegates) : result[1].delegates[i] \notin skipped
          /\ skipped \cap DOMAIN result[1].votes = {}
    /\ BucketsLooped =>
          LET before == Replay(Front(callLog))
              after == calculator[1]
              counted == SelectSeq(Last(callLog).list, Counted)
              Amount(b) == b.amount
              Score(b) == calcScore(b, MintTime)
          IN (\A i \in 1..Len(counted) :
                 \/ hex(counted[i].candidate) \in skipped
                 \/ hex(counted[i].candidate) \notin DOMAIN before.candidates)
             => /\ after.totalVotedStakes =
                      before.totalVotedStakes + SumOver(counted, Amount)
                /\ after.totalVotes = before.totalVotes + SumOver(counted, Score)
                /\ after.candidates = before.candidates
                /\ after.candidateVotes = before.candidateVotes

\* C15: with skipManified = true a registration with selfStakingWeight > 1
\* never appears among the delegates or the keys of the vote map, and every
\* unfiltered bucket naming it, like one naming an unregistered candidate,
\* adds its unscaled amount to totalVotedStakes and its score to totalVotes
\* and nothing to any candidate's score, selfStakingTokens or vote list.
C15_ManifiedSkipped ==
    skipManified => SkippedEverywhere(ManifiedNames(callLog))

\* the same for the registrations whose name no other registration supplied has
ManifiedSkippedUnlessNameReused ==
    skipManified => SkippedEverywhere(ManifiedNames(callLog) \ ReusedNames(callLog))

(***************************************************************************)
(* Properties of storeInBatch and fetchInBatch, checked under Spec         *)
(***************************************************************************)
\* storeInBatch is at the top of its loop, at a height whose fetch failed
AtFailedHeight ==
    /\ worker.pc = "store"
    /\ worker.step = "height"
    /\ worker.todo # <<>>
    /\ worker.errs[Head(worker.todo)] # "nil"

\* storeInBatch is past its loop
PastLastHeight ==
    /\ worker.pc = "store"
    /\ worker.step = "height"
    /\ worker.todo = <<>>

\* in the next state storeInBatch has returned to its caller
StoreReturned == worker'.pc \in {"catchup", "select"}

\* in the next state the store and the height manager hold the batch's
\* result of height h
CommittedNext(h) ==
    /\ dbHas(db', dbKey(h))
    /\ Deserialize(db'[dbKey(h)]) = worker.results[h]
    /\ \E i \in 1..Len(heightManager'.heights) :
          /\ heightManager'.heights[i] = h
          /\ heightManager'.times[i] = worker.results[h].mintTime

\* in the next state the cache holds the batch's result of the greatest
\* height of done (earlier ones may have been evicted)
LatestCachedNext(done) ==
    done # {} => /\ cacheHas(cache', Max(done))
                 /\ cacheGet(cache', Max(done)) = worker.results[Max(done)]

Contradicts(height, mintTime) ==
    LET l == Len(heightManager.heights)
    IN IF l = 0 THEN FALSE
       ELSE height <= heightManager.heights[l] \/ mintTime <= heightManager.times[l]

\* storeInBatch is at the top of its loop, at a height that was fetched and
\* whose result contradicts the ledger
AtContradiction ==
    /\ worker.pc = "store"
    /\ worker.step = "height"
    /\ worker.todo # <<>>
    /\ worker.errs[Head(worker.todo)] = "nil"
    /\ Contradicts(Head(worker.todo), worker.results[Head(worker.todo)].mintTime)

\* the entries of the cache, whatever their order of use
CacheEntries(c) == { c[i] : i \in 1..Len(c) }

\* C17: a fetched result that contradicts the committed ledger is fatal and
\* never committed: from the moment storeInBatch reaches it the worker takes
\* no step but the one that ends the process, and until the process is
\* started anew the store, the entries of the cache, the height manager and
\* nextHeight stay as they were.
C17_ContradictionIsFatal ==
    [][/\ (AtContradiction /\ restarts' = restarts) =>
            /\ worker' = worker
            /\ proc' \in {proc, "stopped", "exited"}
            /\ UNCHANGED <<db, heightManager, nextHeight, lastUpdateTimestamp>>
            /\ CacheEntries(cache') = CacheEntries(cache)
       /\ proc = "exited" => restarts' = restarts + 1
      ]_vars

\* the process has ended at a height whose result contradicts a ledger of
\* two heights or more; nothing of that height is stored
C17_Witness ==
    /\ proc = "exited"
    /\ AtContradiction
    /\ Len(heightManager.heights) >= 2
    /\ Head(worker.todo) \notin HmHeights(heightManager)
    /\ ~cacheHas(cache, Head(worker.todo))
    /\ ~dbHas(db, dbKey(Head(worker.todo)))
    /\ nextHeight = Head(worker.todo)

\* the worker is in fetchInBatch, or between fetchInBatch and the end of
\* storeInBatch: worker.results is keyed by the heights fetched
Fetched == IF worker.pc \in {"spawning", "lock", "store"}
           THEN DOMAIN worker.results ELSE {}

\* C18: the reorg-safety margin. Every height fetchInBatch fetches is at
\* least nextHeight and at least 12 below currentHeight, so with a tip below
\* 12 or below nextHeight + 12 the batch is empty, and no height within 12
\* blocks of the observed tip is fetched or committed.
C18_ReorgMargin ==
    /\ \A h \in Fetched : h + Margin <= currentHeight
    /\ worker.pc \in {"spawning", "lock"} => \A h \in Fetched : nextHeight <= h
    /\ currentHeight < Margin \/ currentHeight < nextHeight + Margin => Fetched = {}
    /\ \A h \in HmHeights(heightManager) : h + Margin <= Heads[head]

\* the margin where currentHeight - 12 does not wrap
MarginKeptFromTwelveOn ==
    worker.pc # "spawning" =>
        /\ \A h \in Fetched : h + Margin <= currentHeight
        /\ worker.pc = "lock" => \A h \in Fetched : nextHeight <= h
        /\ \A h \in HmHeights(heightManager) : h + Margin <= Heads[head]

(***************************************************************************)
(* Properties of fetchInBatch's goroutines, checked under SpecFetch        *)
(***************************************************************************)
\* the goroutines inside retryFetchResultByHeight
Fetching == { h \in DOMAIN fetcher : fetcher[h].pc = "fetch" }

\* the goroutines between their send on limiter and their receive from it
HoldingSlot == { h \in DOMAIN fetcher : fetcher[h].pc \in {"fetch", "assign", "writing", "raced", "receive"} }

\* C19: bounded parallelism. At every moment of fetchInBatch at most
\* fetchInParallel goroutines hold a slot of limiter, those inside
\* retryFetchResultByHeight among them, whatever the size of the batch, and
\* fetchInBatch returns only when every goroutine it spawned has ended.
C19_BoundedParallelism ==
    /\ Fetching \subseteq HoldingSlot
    /\ Cardinality(HoldingSlot) <= fetchInParallel
    /\ limiter = Cardinality(HoldingSlot)
    /\ fetchMain.pc = "returned" =>
          /\ DOMAIN fetcher = BatchHeights(nextHeight, currentHeight)
          /\ \A h \in DOMAIN fetcher : fetcher[h].pc = "ended"

\* a batch larger than fetchInParallel: every slot is taken by a goroutine
\* inside retryFetchResultByHeight while another waits to send
C19_Witness ==
    /\ Cardinality(DOMAIN fetcher) > fetchInParallel
    /\ Cardinality(Fetching) = fetchInParallel
    /\ \E h \in DOMAIN fetcher : fetcher[h].pc = "send"

\* fetchInBatch has returned from a batch larger than fetchInParallel
FetchReturnedFromLargeBatch ==
    /\ fetchMain.pc = "returned"
    /\ Cardinality(DOMAIN fetcher) > fetchInParallel

\* the goroutines whose call of retryFetchResultByHeight has returned
RetryReturned ==
    { h \in DOMAIN fetcher :
        fetcher[h].pc \in {"assign", "writing", "raced", "receive", "done", "ended"} }

\* what a returned retryFetchResultByHeight(h) must have done: at most
\* retryLimit calls, and either a result with a nil error or, every call
\* having failed, the last error
RetryOutcomeSound(h) ==
    /\ fetcher[h].tried <= retryLimit
    /\ \/ ~fetcher[h].result.nil /\ fetcher[h].err = "nil"
       \/ fetcher[h].err # "nil" /\ fetcher[h].tried = retryLimit

\* C20: retryFetchResultByHeight calls fetchResultByHeight at most retryLimit
\* times and returns the first success with a nil error, and otherwise the
\* last error: for every retryLimit, 0 included, never a nil result with a
\* nil error, which storeInBatch would take for a fetched result.
C20_RetryOutcome ==
    /\ \A h \in DOMAIN fetcher : fetcher[h].tried <= retryLimit
    /\ \A h \in RetryReturned : RetryOutcomeSound(h)
    /\ \A h \in DOMAIN results :
          errs[h] = "nil" => ~results[h].nil

\* the same for a retryLimit of 1 or more
RetryOutcomeFromOneOn ==
    retryLimit >= 1 =>
        /\ \A h \in RetryReturned : RetryOutcomeSound(h)
        /\ \A h \in DOMAIN results : errs[h] = "nil" => ~results[h].nil

(***************************************************************************)
(* Properties of the worker loop, checked under SpecLive                   *)
(***************************************************************************)
\* the epoch heights at least 12 below the head of the chain
DueHeights ==
    { h \in startHeight..Heads[head] :
        (h - startHeight) % Interval = 0 /\ h + Margin <= Heads[head] }

\* the heights that can fall due while the chain grows to its last head
AllHeights ==
    { h \in 0..(Heads[MaxHeadIndex] - Margin) :
        \E s \in StartHeights : h >= s /\ (h - s) % Interval = 0 }

\* every height due is committed in the end, unless the process has ended
\* at a result that contradicts the ledger
DueHeightsCommitted ==
    \A h \in AllHeights :
        (h \in DueHeights) ~> (h \in HmHeights(heightManager) \/ proc = "exited")

\* a failed height is not skipped: what is committed is the epoch heights
\* below nextHeight, and a batch begins at nextHeight
NothingSkipped ==
    /\ proc \in {"running", "exited"} =>
          HmHeights(heightManager) =
              { h \in startHeight..(nextHeight - 1) : (h - startHeight) % Interval = 0 }
    /\ (worker.pc \in {"lock", "store"} /\ worker.results # <<>>) =>
          \E h \in DOMAIN worker.results :
              /\ h <= nextHeight
              /\ \A k \in DOMAIN worker.results : h <= k

\* C21: a failed height is retried, never skipped: after a batch aborts at f
\* nextHeight stays at f and the next batch begins with f; and, the worker
\* and the subscription being treated fairly, tips arriving for ever and
\* every fetch succeeding in the end, every epoch height h with h + 12 <= tip
\* is eventually committed.
C21_EveryHeightCommitted == []NothingSkipped /\ DueHeightsCommitted

\* the same for the runs in which currentHeight - 12 never wraps
CommittedUnlessWrapped ==
    <>(worker.pc = "spawning") \/ ([]NothingSkipped /\ DueHeightsCommitted)

(***************************************************************************)
(* Properties of the persisted state, checked under Spec                   *)
(***************************************************************************)
\* the height the persisted NextHeightKey holds
PersistedNext == BytesToUint64(db[NextHeightKey])

\* the epoch heights below n
EpochHeightsBelow(n) ==
    { h \in startHeight..(n - 1) : (h - startHeight) % Interval = 0 }

\* every epoch height below the persisted next height has a persisted result
NoGapInStore ==
    dbHas(db, NextHeightKey) =>
        \A h \in EpochHeightsBelow(PersistedNext) : dbHas(db, dbKey(h))

\* the height manager holds the epoch heights below n, in order
HoldsExactly(m, n) ==
    /\ HmHeights(m) = EpochHeightsBelow(n)
    /\ Len(m.heights) = Cardinality(EpochHeightsBelow(n))
    /\ \A i \in 1..Len(m.heights) : m.heights[i] = startHeight + (i - 1) * Interval

\* a Start that finds NextHeightKey restores without error
StartRestores ==
    (proc = "new" /\ proc' # "new" /\ dbHas(db, NextHeightKey)) =>
        /\ proc' = "running"
        /\ nextHeight' = PersistedNext
        /\ HoldsExactly(heightManager', PersistedNext)

\* C22: at every point of every execution, if the persisted NextHeightKey
\* holds n then every epoch height below n has a persisted result, and a
\* Start after a crash at any point restores without error, leaves
\* nextHeight = n and the height manager holding exactly those heights.
C22_CrashRecoverable == [](NoGapInStore /\ proc # "startFailed") /\ [][StartRestores]_vars

\* started again after a crash that left the result of height n written and
\* NextHeightKey still at n
C22_Witness ==
    /\ restarts >= 1
    /\ proc = "running"
    /\ worker.pc = "catchup"
    /\ dbHas(db, NextHeightKey)
    /\ PersistedNext >= startHeight + 2 * Interval
    /\ dbHas(db, dbKey(PersistedNext))
    /\ nextHeight = PersistedNext
    /\ HoldsExactly(heightManager, PersistedNext)
    /\ cache # <<>>

(***************************************************************************)
(* Properties of the maps fetchInBatch fills, checked under SpecFetch      *)
(***************************************************************************)
\* on return both maps hold one entry for every height of the batch
MapsComplete ==
    fetchMain.pc = "returned" =>
        /\ DOMAIN results = BatchHeights(nextHeight, currentHeight)
        /\ DOMAIN errs = BatchHeights(nextHeight, currentHeight)

\* C23: the writes of the parallel workers to results and errs are mutually
\* exclusive: for every fetchInParallel >= 1 and every batch of two or more
\* heights no two workers write their entries at the same time, and on
\* return both maps hold exactly one entry for every height of the batch.
C23_ExclusiveMapWrites ==
    /\ Cardinality(InAssignment) <= 1
    /\ fetchMain.pc # "crashed"
    /\ MapsComplete

\* the same with fetchInParallel = 1, where limiter lets one goroutine at a
\* time past its send
ExclusiveMapWritesWhenSerial ==
    fetchInParallel = 1 =>
        /\ Cardinality(InAssignment) <= 1
        /\ fetchMain.pc # "crashed"
        /\ MapsComplete

\* fetchInBatch has returned with an entry missing from the maps
ReturnedWithLostEntry ==
    /\ fetchMain.pc = "returned"
    /\ DOMAIN results # BatchHeights(nextHeight, currentHeight)

=============================================================================
